---- MODULE Spec2Model ----
(***************************************************************************)
(* Model of gerrydb_etl.db.DirectTransactionContext: the scoped database   *)
(* transaction (__enter__ / __exit__) and the versioned bulk upsert        *)
(* load_column_values.                                                     *)
(*                                                                         *)
(* The database is modelled by its committed tables (ColumnValue,          *)
(* ObjectMeta) and by the view of the session's open transaction           *)
(* (tx_ColumnValue, tx_ObjectMeta).  commit publishes the view, rollback   *)
(* discards it.  A table is a sequence of rows; a row's position is its    *)
(* primary key.                                                            *)
(***************************************************************************)
EXTENDS Integers, Sequences, FiniteSets, TLC

VARIABLES
    ColumnValue,     \* committed ColumnValue rows
    ObjectMeta,      \* committed ObjectMeta rows
    tx_ColumnValue,  \* ColumnValue rows as seen inside the session's transaction
    tx_ObjectMeta,   \* ObjectMeta rows as seen inside the session's transaction
    db,              \* self.db: "None", "begun" (in a transaction), "idle", "closed"
    dry_run,         \* self.dry_run
    notes,           \* self.notes
    email,           \* self.email: None or a string
    user,            \* self.user: 0 is None, else the user_id of the User
    meta,            \* self.meta: 0 is None, else the meta_id of the audit record
    meta_seq,        \* the database sequence behind ObjectMeta.meta_id
    clock,           \* the wall clock read by datetime.now
    pc,              \* "new": constructed, "scope": inside the with block,
                     \* "raising": an exception is leaving the with block,
                     \* "exited": __exit__ has run
    enter,           \* what the last __enter__ did
    call,            \* what the last load_column_values call of the scope did
    exit,            \* what the last __exit__ did
    procs,           \* the concurrent processes of SpecConc: position in the
                     \* code and pending writes of each
    GeoSetVersion,   \* committed GeoSetVersion rows
    tx_GeoSetVersion,\* GeoSetVersion rows as seen inside the session's transaction
    layer_gdf        \* load_geo's layer_gdf: the rows of the downloaded layer

vars == <<ColumnValue, ObjectMeta, tx_ColumnValue, tx_ObjectMeta, db, dry_run,
          notes, email, user, meta, meta_seq, clock, pc, enter, call, exit,
          procs, GeoSetVersion, tx_GeoSetVersion, layer_gdf>>

-----------------------------------------------------------------------------
(* Bounds of the model *)

\* load_column_values calls in one behaviour of Spec
MaxCalls == 2
\* audit records created in one behaviour of Spec
MaxScopes == 2
\* load_column_values calls in one behaviour of SpecChain
MaxChain == 3
\* audit records created in one behaviour of SpecChain
MaxChainScopes == 2
\* columns passed in cols in SpecVal
MaxValCols == 2
\* load_column_values calls in one behaviour of SpecTx
MaxTxCalls == 2
\* audit records created in one behaviour of SpecTx
MaxTxScopes == 2
\* audit records created in one behaviour of SpecCfg
MaxCfgScopes == 2
\* load_column_values calls in one behaviour of SpecCfg
MaxCfgCalls == 1
\* load_column_values calls in one behaviour of SpecKey
MaxKeyCalls == 2
\* scopes each process runs in one behaviour of SpecConc
MaxConcRounds == 2
\* load_column_values calls in one behaviour of SpecDup
MaxDupCalls == 2
\* imports in one behaviour of SpecGeo
MaxGeoImports == 3
\* audit records created in one behaviour of SpecVariant
MaxVariantScopes == 2
\* rows of the downloaded layer in SpecAiannh
MaxLayerRows == 3

-----------------------------------------------------------------------------
(* Python values and column types *)

\* valid_to IS NULL
NULL == 0

\* gerrydb_meta.enums.ColumnType, without the structured (JSON) type
ColumnType == {"BOOL", "FLOAT", "INT", "STR"}

\* A Python scalar: its class and an abstract payload.
PyVal(t, v) == [t |-> t, v |-> v]

\* isinstance(value, int): bool is a subclass of int
isinstance_int(value) == value.t \in {"int", "bool"}

isinstance_float(value) == value.t = "float"

isinstance_str(value) == value.t = "str"

\* The test of a BOOL cell as `not isinstance(value, bool)` would read it.
isinstance_bool_negated(value) == value.t # "bool"

isinstance_bool(value) == value.t = "bool"

\* float(value) for an int or bool value
float(value) == PyVal("float", value.v)

\* gerrydb_meta.crud.column.COLUMN_TYPE_TO_VALUE_COLUMN
COLUMN_TYPE_TO_VALUE_COLUMN(type) ==
    CASE type = "FLOAT" -> "val_float"
      [] type = "INT" -> "val_int"
      [] type = "STR" -> "val_str"
      [] type = "BOOL" -> "val_bool"

\* The branch of the if/elif chain taken for one cell: the message appended
\* to validation_errors, or "" when none is appended.  The suffix is a plain
\* string, not an f-string, so the message names neither column nor geography.
CellError(type, value) ==
    IF type = "FLOAT" /\ isinstance_int(value) THEN ""
    ELSE IF type = "FLOAT" /\ ~isinstance_float(value)
        THEN "Expected integer or floating-point column value for geography {geo.full_path}"
    ELSE IF type = "INT" /\ ~isinstance_int(value)
        THEN "Expected integer column value for geography {geo.full_path}"
    ELSE IF type = "STR" /\ ~isinstance_str(value)
        THEN "Expected string column value for geography {geo.full_path}"
    ELSE IF type = "BOOL" /\ isinstance_bool(value)
        THEN "Expected boolean column value for geography {geo.full_path}"
    ELSE ""

\* The value stored as it came, without float(value).
CellValue_no_promotion(type, value) == value

\* The value stored for one cell: promoted for FLOAT columns fed an int.
CellValue(type, value) ==
    IF type = "FLOAT" /\ isinstance_int(value) THEN float(value) ELSE value

-----------------------------------------------------------------------------
(* load_column_values: validation and the rows to insert *)

\* The rows stamped with a reading of the clock taken per row.
ColumnRows_now_per_row(c, geos, df, now, meta_id) ==
    [i \in 1..Len(df.index) |->
        [col_id |-> c.col_id,
         geo_id |-> geos[df.index[i]],
         meta_id |-> meta_id,
         valid_from |-> now + i - 1,
         valid_to |-> NULL,
         val_column |-> COLUMN_TYPE_TO_VALUE_COLUMN(c.type),
         value |-> CellValue(c.type, df.data[c.alias][i])]]

\* The rows appended for one column of cols, in the order of df's index.
\* c is one item of cols: [alias, col_id, type].
ColumnRows(c, geos, df, now, meta_id) ==
    [i \in 1..Len(df.index) |->
        [col_id |-> c.col_id,
         geo_id |-> geos[df.index[i]],
         meta_id |-> meta_id,
         valid_from |-> now,
         valid_to |-> NULL,
         val_column |-> COLUMN_TYPE_TO_VALUE_COLUMN(c.type),
         value |-> CellValue(c.type, df.data[c.alias][i])]]

\* rows after the outer loop has run over cols[1..n].
RECURSIVE RowsUpTo(_, _, _, _, _, _)
RowsUpTo(n, cols, geos, df, now, meta_id) ==
    IF n = 0 THEN <<>>
    ELSE RowsUpTo(n - 1, cols, geos, df, now, meta_id)
            \o ColumnRows(cols[n], geos, df, now, meta_id)

\* rows re-created at the top of every iteration of the outer loop (the
\* cherrydb_etl variant): it holds the last column's rows.
rows_last_column_only(cols, geos, df, now, meta_id) ==
    ColumnRows(cols[Len(cols)], geos, df, now, meta_id)

rows(cols, geos, df, now, meta_id) ==
    RowsUpTo(Len(cols), cols, geos, df, now, meta_id)

\* The messages appended while the inner loop runs over one column.
ColumnErrors(c, df) ==
    SelectSeq([i \in 1..Len(df.index) |-> CellError(c.type, df.data[c.alias][i])],
              LAMBDA m : m # "")

\* validation_errors as read by the `if` after the outer loop: the list is
\* re-created at the top of every iteration, so it holds the last column's.
validation_errors(cols, df) == ColumnErrors(cols[Len(cols)], df)

\* The exception leaving load_column_values before any statement is
\* executed on the session, or "" when validation lets the call through.
\*   KeyError:  geos[geo_id] for an index entry missing from geos
\*   NameError: validation_errors is unbound when cols is empty
\*   TypeError: ValueError accepts no keyword argument
ValidationRaises(cols, geos, df) ==
    IF cols # <<>> /\ \E i \in 1..Len(df.index) : df.index[i] \notin DOMAIN geos
        THEN "KeyError"
    ELSE IF cols = <<>> THEN "NameError"
    ELSE IF validation_errors(cols, df) # <<>> THEN "TypeError"
    ELSE ""

\* The entries the raised exception carries to the caller: the TypeError
\* raised in place of ValueError(errors=...) carries none of the messages.
RaisedEntries(cols, geos, df) == <<>>

-----------------------------------------------------------------------------
(* load_column_values: stale rows, close-out and insert *)

Range(s) == {s[i] : i \in DOMAIN s}

\* stale_pairs: the (col_id, geo_id) of every current row of a column of
\* cols and a geography of geos.
stale_pairs(table, cols, geos) ==
    {<<table[i].col_id, table[i].geo_id>> : i \in
        {j \in DOMAIN table :
            /\ table[j].geo_id \in {geos[p] : p \in DOMAIN geos}
            /\ table[j].col_id \in {c.col_id : c \in Range(cols)}
            /\ table[j].valid_to = NULL}}

\* The update stamping the rows with a second, later reading of the clock.
UpdateValidTo_second_now(table, pairs, now) ==
    [i \in DOMAIN table |->
        IF <<table[i].col_id, table[i].geo_id>> \in pairs
            THEN [table[i] EXCEPT !.valid_to = now + 1]
            ELSE table[i]]

\* update(ColumnValue).where(tuple_(col_id, geo_id).in_(pairs)).values(valid_to=now)
UpdateValidTo(table, pairs, now) ==
    [i \in DOMAIN table |->
        IF <<table[i].col_id, table[i].geo_id>> \in pairs
            THEN [table[i] EXCEPT !.valid_to = now]
            ELSE table[i]]

\* Upsert without the close-out of stale rows.
Upsert_insert_only(table, cols, geos, df, now, meta_id) ==
    table \o rows(cols, geos, df, now, meta_id)

\* The table after the nested transaction of one call.
Upsert(table, cols, geos, df, now, meta_id) ==
    LET stale == stale_pairs(table, cols, geos)
        closed == IF stale # {} THEN UpdateValidTo(table, stale, now) ELSE table
    IN  closed \o rows(cols, geos, df, now, meta_id)

-----------------------------------------------------------------------------
(* The environment variable GERRYDB_DRY_RUN *)

\* A string is a sequence of characters; an unset variable is Unset.
Unset == [set |-> FALSE, val |-> <<>>]

EnvStr(chars) == [set |-> TRUE, val |-> chars]

\* os.getenv(name, default)
getenv(var, default) == IF var.set THEN var.val ELSE default

LowerChar(ch) ==
    CASE ch = "T" -> "t"
      [] ch = "R" -> "r"
      [] ch = "U" -> "u"
      [] ch = "E" -> "e"
      [] ch = "F" -> "f"
      [] ch = "A" -> "a"
      [] ch = "L" -> "l"
      [] ch = "S" -> "s"
      [] OTHER -> ch

\* The comparison made on the value as it was read.
lower_identity(str) == str

\* str.lower
lower(str) == [i \in DOMAIN str |-> LowerChar(str[i])]

\* The condition without the test of exc_type (the cherrydb_etl variant).
RollbackWanted_no_exc_type(exc_type, dry, env) ==
    dry \/ lower(getenv(env, <<>>)) = <<"t", "r", "u", "e">>

\* The condition without the test of self.dry_run.
RollbackWanted_no_dry_run(exc_type, dry, env) ==
    exc_type \/ lower(getenv(env, <<>>)) = <<"t", "r", "u", "e">>

\* The condition with the test of self.dry_run alone.
RollbackWanted_dry_run_only(exc_type, dry, env) == dry

\* The condition of the `if` in __exit__.
RollbackWanted(exc_type, dry, env) ==
    exc_type \/ dry \/ lower(getenv(env, <<>>)) = <<"t", "r", "u", "e">>

-----------------------------------------------------------------------------
(* The transaction context *)

NoCall == [now |-> 0]

NoExit == [calls |-> <<>>]

NoEnter == [calls |-> <<>>]

\* No layer has been downloaded.
NoLayer == [state |-> "none"]

\* The processes that run an import at the same time.
Procs == {1, 2}

\* A process outside load_column_values.
IdleProc == [pc |-> "idle", rounds |-> 0]

NoProcs == [p \in Procs |-> IdleProc]

\* An Optional[str] that is None: os.getenv(name) returns it for a variable
\* that is not set.
None == Unset

\* The users registered in the database.
Users == {[user_id |-> 1, email |-> <<"a">>]}

\* db.query(User).filter(User.email == email).first(): the user_id of the
\* user found, or 0 for None.
QueryUser(e) ==
    IF \E u \in Users : e.set /\ u.email = e.val
        THEN (CHOOSE u \in Users : u.email = e.val).user_id
        ELSE 0

\* The dataclass constructor: the caller may pass a session and an email;
\* meta and user are left unset.
DirectTransactionContext(d, n, session, e) ==
    /\ pc = "exited"
    /\ db' = IF session THEN "idle" ELSE "None"
    /\ dry_run' = d
    /\ notes' = n
    /\ email' = e
    /\ user' = 0
    /\ meta' = 0
    /\ pc' = "new"
    /\ UNCHANGED <<ColumnValue, ObjectMeta, tx_ColumnValue, tx_ObjectMeta,
                   meta_seq, clock, enter, call, exit, procs, GeoSetVersion,
                   tx_GeoSetVersion, layer_gdf>>

\* The statements of __enter__ that reach the session, in order, stopping
\* at the one that raises.
EnterCalls(no_engine, begin_raises, query, create) ==
    IF no_engine THEN <<>>
    ELSE IF begin_raises THEN <<"begin">>
    ELSE <<"begin">> \o (IF query THEN <<"query">> ELSE <<>>)
                    \o (IF create THEN <<"create">> ELSE <<>>)

\* __enter__: build the session if none was passed, begin a transaction,
\* resolve email and user, and create the audit record unless the object
\* already holds one.  It may be entered again after its scope ended.
\* uri and env_email are GERRYDB_DATABASE_URI and GERRYDB_EMAIL as read by
\* os.getenv; create_ok says whether obj_meta.create accepts a user of None.
__enter__(uri, env_email, create_ok) ==
    LET \* create_engine(None) raises before a session exists
        no_engine == db = "None" /\ ~uri.set
        \* begin() on a session whose transaction is still open raises
        begin_raises == db = "begun"
        email1 == IF email = None THEN env_email ELSE email
        user1 == IF user = 0 THEN QueryUser(email1) ELSE user
        create == meta = 0
        create_raises == create /\ user1 = 0 /\ ~create_ok
        raised == IF no_engine THEN "ArgumentError"
                  ELSE IF begin_raises THEN "InvalidRequestError"
                  ELSE IF create_raises THEN "AttributeError"
                  ELSE ""
    IN  /\ pc \in {"new", "exited"}
        /\ db # "broken"
        /\ enter' = [db |-> db, email |-> email, uri |-> uri,
                      env_email |-> env_email, raised |-> raised,
                      calls |-> EnterCalls(no_engine, begin_raises, user = 0, create)]
        /\ IF no_engine \/ begin_raises
             THEN UNCHANGED <<tx_ColumnValue, tx_ObjectMeta, db, email, user,
                              meta, meta_seq, pc, call, exit, tx_GeoSetVersion>>
             ELSE /\ db' = "begun"
                  /\ tx_ColumnValue' = ColumnValue
                  /\ tx_GeoSetVersion' = GeoSetVersion
                  /\ email' = email1
                  /\ user' = user1
                  /\ IF create /\ ~create_raises
                       THEN /\ meta_seq' = meta_seq + 1
                            /\ meta' = meta_seq + 1
                            /\ tx_ObjectMeta' =
                                  ObjectMeta \cup {[meta_id |-> meta_seq + 1, notes |-> notes]}
                       ELSE /\ tx_ObjectMeta' = ObjectMeta
                            /\ UNCHANGED <<meta_seq, meta>>
                  /\ pc' = IF raised = "" THEN "scope" ELSE pc
                  /\ call' = NoCall
                  /\ exit' = NoExit
        /\ UNCHANGED <<ColumnValue, ObjectMeta, dry_run, notes, clock, procs,
                       GeoSetVersion, layer_gdf>>

\* The statements of the nested transaction the backing store can fail at.
StoreFailures == {"", "update", "insert"}

\* The table when a statement of the nested transaction fails: the update
\* fails as a whole, the insert fails after the close-out was executed.
PartialUpsert(table, cols, geos, now, fail) ==
    LET stale == stale_pairs(table, cols, geos)
    IN  IF fail = "insert" /\ stale # {}
            THEN UpdateValidTo(table, stale, now) ELSE table

\* The exception raised inside `with self.db.begin(nested=True)`: the update
\* is executed, and can fail, only when stale values were found.
NestedRaises(table, cols, geos, fail) ==
    IF fail = "update" /\ stale_pairs(table, cols, geos) # {} THEN "DBAPIError"
    ELSE IF fail = "insert" THEN "DBAPIError"
    ELSE ""

\* The statements with the insert executed ahead of the close-out.
CallSteps_insert_first(table, cols, geos, df, fail) ==
    IF ValidationRaises(cols, geos, df) # "" THEN <<"validate">>
    ELSE <<"validate">>
         \o [k \in 1..Len(cols) |-> "select"]
         \o <<"savepoint", "insert">>
         \o (IF stale_pairs(table, cols, geos) # {} THEN <<"update">> ELSE <<>>)
         \o <<"release">>

\* What one call does, in order: the validation loops, one stale query per
\* column, then `with self.db.begin(nested=True)` around the update (when
\* stale values were found) and the insert.  The savepoint is released on
\* success and rolled back to when a statement fails.
CallSteps(table, cols, geos, df, fail) ==
    IF ValidationRaises(cols, geos, df) # "" THEN <<"validate">>
    ELSE <<"validate">>
         \o [k \in 1..Len(cols) |-> "select"]
         \o <<"savepoint">>
         \o (IF stale_pairs(table, cols, geos) # {} THEN <<"update">> ELSE <<>>)
         \o (IF fail = "update" /\ stale_pairs(table, cols, geos) # {}
                THEN <<"rollback_to">>
             ELSE IF fail = "insert" THEN <<"insert", "rollback_to">>
             ELSE <<"insert", "release">>)

\* The call with the rows of df whose geography id is no key of geos
\* skipped instead of looked up.
load_column_values_skip_missing(cols, geos, df, fail) ==
    LET now == clock
        keep == SelectSeq([i \in 1..Len(df.index) |-> i],
                          LAMBDA i : df.index[i] \in DOMAIN geos)
        known == [index |-> [k \in 1..Len(keep) |-> df.index[keep[k]]],
                  data |-> [a \in DOMAIN df.data |->
                               [k \in 1..Len(keep) |-> df.data[a][keep[k]]]]]
        invalid == ValidationRaises(cols, geos, known)
        raised == IF invalid # "" THEN invalid
                  ELSE NestedRaises(tx_ColumnValue, cols, geos, fail)
    IN  /\ pc = "scope"
        /\ clock' = clock + 1
        /\ call' = [now |-> now, cols |-> cols, geos |-> geos, df |-> df,
                     raised |-> raised,
                     steps |-> CallSteps(tx_ColumnValue, cols, geos, known, fail),
                     entries |-> <<>>,
                     before |-> tx_ColumnValue,
                     partial |-> tx_ColumnValue]
        /\ IF raised # ""
             THEN /\ pc' = "raising"
                  /\ UNCHANGED tx_ColumnValue
             ELSE /\ pc' = pc
                  /\ tx_ColumnValue' =
                        Upsert(tx_ColumnValue, cols, geos, known, now, meta)
        /\ UNCHANGED <<ColumnValue, ObjectMeta, tx_ObjectMeta, db, dry_run,
                       notes, email, user, meta, meta_seq, enter, exit, procs,
                       GeoSetVersion, tx_GeoSetVersion, layer_gdf>>

\* load_column_values(cols=cols, geos=geos, df=df) called in the with block.
\* fail names the statement at which the backing store fails, if any; the
\* nested transaction rolls back to its savepoint and re-raises.
load_column_values(cols, geos, df, fail) ==
    LET now == clock
        invalid == ValidationRaises(cols, geos, df)
        raised == IF invalid # "" THEN invalid
                  ELSE NestedRaises(tx_ColumnValue, cols, geos, fail)
    IN  /\ pc = "scope"
        /\ clock' = clock + 1
        /\ call' = [now |-> now, cols |-> cols, geos |-> geos, df |-> df,
                     raised |-> raised,
                     steps |-> CallSteps(tx_ColumnValue, cols, geos, df, fail),
                     entries |-> IF raised = "TypeError"
                                    THEN RaisedEntries(cols, geos, df) ELSE <<>>,
                     before |-> tx_ColumnValue,
                     partial |-> IF raised = "DBAPIError"
                                    THEN PartialUpsert(tx_ColumnValue, cols, geos, now, fail)
                                    ELSE tx_ColumnValue]
        /\ IF raised # ""
             THEN /\ pc' = "raising"
                  /\ UNCHANGED tx_ColumnValue
             ELSE /\ pc' = pc
                  /\ tx_ColumnValue' =
                        Upsert(tx_ColumnValue, cols, geos, df, now, meta)
        /\ UNCHANGED <<ColumnValue, ObjectMeta, tx_ObjectMeta, db, dry_run,
                       notes, email, user, meta, meta_seq, enter, exit, procs,
                       GeoSetVersion, tx_GeoSetVersion, layer_gdf>>

\* Any other statement of the with block raises.
BodyRaises ==
    /\ pc = "scope"
    /\ pc' = "raising"
    /\ UNCHANGED <<ColumnValue, ObjectMeta, tx_ColumnValue, tx_ObjectMeta, db,
                   dry_run, notes, email, user, meta, meta_seq, clock, enter,
                   call, exit, procs, GeoSetVersion, tx_GeoSetVersion, layer_gdf>>

\* The handler of a failed commit without its rollback.
ExitCalls_no_rollback(wanted, commit_ok, rollback_ok) ==
    IF wanted
        THEN IF rollback_ok THEN <<"rollback", "close">> ELSE <<"rollback">>
        ELSE IF commit_ok THEN <<"commit", "close">> ELSE <<"commit">>

\* The methods of the session __exit__ calls, in order: close is reached
\* only when neither rollback nor commit raised.
ExitCalls(wanted, commit_ok, rollback_ok) ==
    IF wanted
        THEN IF rollback_ok THEN <<"rollback", "close">> ELSE <<"rollback">>
        ELSE IF commit_ok THEN <<"commit", "close">> ELSE <<"commit", "rollback">>

\* __exit__(exc_type, exc_value, traceback).  env is GERRYDB_DRY_RUN as
\* read by os.getenv; commit_ok and rollback_ok say whether the session's
\* commit and rollback succeed.
__exit__(env, commit_ok, rollback_ok) ==
    LET exc_type == pc = "raising"
        wanted == RollbackWanted(exc_type, dry_run, env)
        calls == ExitCalls(wanted, commit_ok, rollback_ok)
        raises == IF wanted THEN ~rollback_ok ELSE ~commit_ok
        \* the call whose exception leaves __exit__: `raise ex` re-raises the
        \* commit's unless the rollback in the handler raised first
        error == IF ~raises THEN ""
                 ELSE IF wanted \/ ~rollback_ok THEN "rollback" ELSE "commit"
        committed == ~wanted /\ commit_ok
    IN  /\ pc \in {"scope", "raising"}
        /\ ColumnValue' = IF committed THEN tx_ColumnValue ELSE ColumnValue
        /\ ObjectMeta' = IF committed THEN tx_ObjectMeta ELSE ObjectMeta
        /\ tx_ColumnValue' = ColumnValue'
        /\ tx_ObjectMeta' = ObjectMeta'
        /\ GeoSetVersion' = IF committed THEN tx_GeoSetVersion ELSE GeoSetVersion
        /\ tx_GeoSetVersion' = GeoSetVersion'
        /\ db' = IF ~raises THEN "closed"
                  ELSE IF rollback_ok THEN "idle" ELSE "broken"
        /\ exit' = [calls |-> calls, exc_type |-> exc_type, dry_run |-> dry_run,
                     env |-> env, raises |-> raises, error |-> error]
        /\ pc' = "exited"
        /\ UNCHANGED <<dry_run, notes, email, user, meta, meta_seq, clock,
                       enter, call, procs, layer_gdf>>

\* The cherrydb_etl condition with the test of exc_type added.
cherrydb_RollbackWanted_with_exc_type(exc_type, dry, env) ==
    exc_type \/ dry \/ lower(getenv(env, <<>>)) = <<"t", "r", "u", "e">>

\* The condition of the `if` in __exit__ of cherrydb_etl; env is
\* CHERRY_DRY_RUN as read by os.getenv.
cherrydb_RollbackWanted(exc_type, dry, env) ==
    dry \/ lower(getenv(env, <<>>)) = <<"t", "r", "u", "e">>

\* __exit__ of cherrydb_etl's DirectTransactionContext.
cherrydb__exit__(env, commit_ok, rollback_ok) ==
    LET exc_type == pc = "raising"
        wanted == cherrydb_RollbackWanted(exc_type, dry_run, env)
        calls == ExitCalls(wanted, commit_ok, rollback_ok)
        raises == IF wanted THEN ~rollback_ok ELSE ~commit_ok
        error == IF ~raises THEN ""
                 ELSE IF wanted \/ ~rollback_ok THEN "rollback" ELSE "commit"
        committed == ~wanted /\ commit_ok
    IN  /\ pc \in {"scope", "raising"}
        /\ ColumnValue' = IF committed THEN tx_ColumnValue ELSE ColumnValue
        /\ ObjectMeta' = IF committed THEN tx_ObjectMeta ELSE ObjectMeta
        /\ tx_ColumnValue' = ColumnValue'
        /\ tx_ObjectMeta' = ObjectMeta'
        /\ GeoSetVersion' = IF committed THEN tx_GeoSetVersion ELSE GeoSetVersion
        /\ tx_GeoSetVersion' = GeoSetVersion'
        /\ db' = IF ~raises THEN "closed"
                  ELSE IF rollback_ok THEN "idle" ELSE "broken"
        /\ exit' = [calls |-> calls, exc_type |-> exc_type, dry_run |-> dry_run,
                     env |-> env, raises |-> raises, error |-> error,
                     variant |-> "cherrydb_etl"]
        /\ pc' = "exited"
        /\ UNCHANGED <<dry_run, notes, email, user, meta, meta_seq, clock,
                       enter, call, procs, layer_gdf>>

-----------------------------------------------------------------------------
(* Inputs *)

\* Resolved DataColumn objects under the alias that names them in df.
Columns ==
    {[alias |-> "a", col_id |-> 1, type |-> "INT"],
     [alias |-> "b", col_id |-> 2, type |-> "STR"]}

\* Geography objects by path: path |-> geo_id.
Geographies == [p \in {"X", "Y"} |-> IF p = "X" THEN 1 ELSE 2]

\* A value that passes validation for a column of the given type.
ValidValues ==
    [type \in ColumnType |->
        CASE type = "INT" -> {PyVal("int", 5)}
          [] type = "STR" -> {PyVal("str", 5)}
          [] type = "FLOAT" -> {PyVal("float", 5)}
          [] type = "BOOL" -> {PyVal("int", 1)}]

Notes == {"n1"}

\* GERRYDB_DATABASE_URI of a configured process.
DatabaseUri == EnvStr(<<"p", "g">>)

\* GERRYDB_EMAIL of a configured process: the email of a registered user.
UserEmail == EnvStr(<<"a">>)

\* __enter__ in a configured process.
ConfiguredEnter == __enter__(DatabaseUri, UserEmail, TRUE)

EnvValues ==
    {Unset, EnvStr(<<>>), EnvStr(<<"t", "r", "u", "e">>),
     EnvStr(<<"T", "r", "u", "e">>), EnvStr(<<"f", "a", "l", "s", "e">>)}

\* The sequences over S that repeat no element: the items of a dict.
SeqsNoRep(S) ==
    {q \in UNION {[1..n -> S] : n \in 1..Cardinality(S)} :
        \A i, j \in DOMAIN q : i # j => q[i] # q[j]}

\* The paths of P in the order of their geo_id.
RECURSIVE ByGeoId(_)
ByGeoId(P) ==
    IF P = {} THEN <<>>
    ELSE LET p == CHOOSE q \in P : \A r \in P : Geographies[q] <= Geographies[r]
         IN  <<p>> \o ByGeoId(P \ {p})

\* cols: aliases to pairwise-distinct columns, listed by col_id (the order of
\* cols decides the order of the inserted rows and nothing else when every
\* cell is valid; SpecVal takes cols in every order).
ColsInputs ==
    {q \in SeqsNoRep(Columns) :
        \A i, j \in DOMAIN q : i < j => q[i].col_id < q[j].col_id}

\* geos: a non-empty part of the resolved geographies.
GeosInputs ==
    {[p \in P |-> Geographies[p]] : P \in SUBSET DOMAIN Geographies \ {{}}}

\* The series of one column over an index of n entries.
SeriesInputs(c, n, values) == [1..n -> values[c.type]]

\* df: an index without repeated ids, all of them keys of geos (possibly not
\* all keys of geos), and one series per alias of cols.
DfInputs(cols, geos, values) ==
    UNION {
        {[index |-> ByGeoId(P), data |-> d] :
            d \in {f \in [{c.alias : c \in Range(cols)} ->
                            UNION {SeriesInputs(c, Cardinality(P), values) : c \in Range(cols)}] :
                    \A c \in Range(cols) :
                        f[c.alias] \in SeriesInputs(c, Cardinality(P), values)}} :
        P \in SUBSET DOMAIN geos \ {{}}}

-----------------------------------------------------------------------------------------------------------------------------------------------------
(* Specification: sequences of scopes that load column values *)

Init ==
    /\ ColumnValue = <<>>
    /\ ObjectMeta = {}
    /\ tx_ColumnValue = <<>>
    /\ tx_ObjectMeta = {}
    /\ db = "None"
    /\ dry_run \in BOOLEAN
    /\ notes \in Notes
    /\ email = None
    /\ user = 0
    /\ enter = NoEnter
    /\ procs = NoProcs
    /\ GeoSetVersion = <<>>
    /\ tx_GeoSetVersion = <<>>
    /\ layer_gdf = NoLayer
    /\ meta = 0
    /\ meta_seq = 0
    /\ clock = 1
    /\ pc = "new"
    /\ call = NoCall
    /\ exit = NoExit

Construct ==
    /\ meta_seq < MaxScopes
    /\ \E d \in BOOLEAN, n \in Notes : DirectTransactionContext(d, n, FALSE, None)

Enter ==
    /\ meta_seq < MaxScopes
    /\ ConfiguredEnter

Load ==
    /\ clock <= MaxCalls
    /\ \E cols \in ColsInputs, geos \in GeosInputs :
          \E df \in DfInputs(cols, geos, ValidValues) :
              load_column_values(cols, geos, df, "")

\* The session's commit and rollback succeed and GERRYDB_DRY_RUN is unset.
Exit == __exit__(Unset, TRUE, TRUE)

Next == Construct \/ Enter \/ Load \/ BodyRaises \/ Exit

Spec == Init /\ [][Next]_vars

-----------------------------------------------------------------------------
(* Specification: repeated loads of one column *)

ChainColumn == CHOOSE c \in Columns : c.type = "INT"

ChainValues == [type \in ColumnType |-> {PyVal("int", 5), PyVal("int", 6)}]

ChainConstruct ==
    /\ meta_seq < MaxChainScopes
    /\ \E d \in BOOLEAN, n \in Notes : DirectTransactionContext(d, n, FALSE, None)

ChainEnter ==
    /\ meta_seq < MaxChainScopes
    /\ ConfiguredEnter

ChainLoad ==
    /\ clock <= MaxChain
    /\ \E geos \in GeosInputs :
          \E df \in DfInputs(<<ChainColumn>>, geos, ChainValues) :
              load_column_values(<<ChainColumn>>, geos, df, "")

ChainExit == __exit__(Unset, TRUE, TRUE)

NextChain == ChainConstruct \/ ChainEnter \/ ChainLoad \/ BodyRaises \/ ChainExit

SpecChain == Init /\ [][NextChain]_vars

-----------------------------------------------------------------------------
(* Specification: every way a scope can end *)

TxConstruct ==
    /\ meta_seq < MaxTxScopes
    /\ \E d \in BOOLEAN, n \in Notes : DirectTransactionContext(d, n, FALSE, None)

TxEnter ==
    /\ meta_seq < MaxTxScopes
    /\ ConfiguredEnter

TxLoad ==
    /\ clock <= MaxTxCalls
    /\ \E df \in DfInputs(<<ChainColumn>>, Geographies, ValidValues),
          fail \in StoreFailures :
          load_column_values(<<ChainColumn>>, Geographies, df, fail)

TxExit ==
    \E env \in EnvValues, commit_ok \in BOOLEAN, rollback_ok \in BOOLEAN :
        __exit__(env, commit_ok, rollback_ok)

NextTx == TxConstruct \/ TxEnter \/ TxLoad \/ BodyRaises \/ TxExit

SpecTx == Init /\ [][NextTx]_vars

-----------------------------------------------------------------------------
(* Specification: validation of one batch against a populated table *)

\* One column of every type value coercion handles.
ValColumns ==
    {[alias |-> "i", col_id |-> 1, type |-> "INT"],
     [alias |-> "f", col_id |-> 2, type |-> "FLOAT"],
     [alias |-> "s", col_id |-> 3, type |-> "STR"],
     [alias |-> "b", col_id |-> 4, type |-> "BOOL"]}

\* A cell of any Python class, whatever the column.
AnyValues ==
    [type \in ColumnType |->
        {PyVal("int", 5), PyVal("float", 5), PyVal("str", 5), PyVal("bool", 1)}]

ValColsInputs == {q \in SeqsNoRep(ValColumns) : Len(q) <= MaxValCols}

\* The table left by an earlier scope that committed one load of an INT
\* and a STR column over every geography.
EarlierCols ==
    <<CHOOSE c \in ValColumns : c.type = "INT",
      CHOOSE c \in ValColumns : c.type = "STR">>

EarlierDf ==
    CHOOSE df \in DfInputs(EarlierCols, Geographies, ValidValues) :
        Len(df.index) = Cardinality(DOMAIN Geographies)

InitVal ==
    /\ ColumnValue = Upsert(<<>>, EarlierCols, Geographies, EarlierDf, 1, 1)
    /\ ObjectMeta = {[meta_id |-> 1, notes |-> n] : n \in {CHOOSE n \in Notes : TRUE}}
    /\ tx_ColumnValue = ColumnValue
    /\ tx_ObjectMeta = ObjectMeta
    /\ db = "None"
    /\ dry_run \in BOOLEAN
    /\ notes \in Notes
    /\ email = None
    /\ user = 0
    /\ enter = NoEnter
    /\ procs = NoProcs
    /\ GeoSetVersion = <<>>
    /\ tx_GeoSetVersion = <<>>
    /\ layer_gdf = NoLayer
    /\ meta = 0
    /\ meta_seq = 1
    /\ clock = 2
    /\ pc = "new"
    /\ call = NoCall
    /\ exit = NoExit

\* The batch under validation is the first load after the earlier import.
ValLoad ==
    /\ call = NoCall
    /\ ColumnValue = tx_ColumnValue
    /\ clock = 2
    /\ \E cols \in ValColsInputs :
          \E df \in DfInputs(cols, Geographies, AnyValues) :
              load_column_values(cols, Geographies, df, "")

ValExit == __exit__(Unset, TRUE, TRUE)

NextVal == ConfiguredEnter \/ ValLoad \/ BodyRaises \/ ValExit

SpecVal == InitVal /\ [][NextVal]_vars

-----------------------------------------------------------------------------
(* Specification: one batch of a single column of any type *)

CellColsInputs == {<<c>> : c \in ValColumns}

CellLoad ==
    /\ call = NoCall
    /\ ColumnValue = tx_ColumnValue
    /\ clock = 2
    /\ \E cols \in CellColsInputs :
          \E df \in DfInputs(cols, Geographies, AnyValues) :
              load_column_values(cols, Geographies, df, "")

CellExit == __exit__(Unset, TRUE, TRUE)

NextCell == ConfiguredEnter \/ CellLoad \/ BodyRaises \/ CellExit

SpecCell == InitVal /\ [][NextCell]_vars

-----------------------------------------------------------------------------
(* Specification: entering under every configuration *)

\* GERRYDB_DATABASE_URI: unset or set.
UriValues == {Unset, DatabaseUri}

\* An email: None (unset), that of a registered user, that of nobody.
EmailValues == {None, UserEmail, EnvStr(<<"b">>)}

CfgConstruct ==
    /\ meta_seq < MaxCfgScopes
    /\ \E d \in BOOLEAN, n \in Notes, session \in BOOLEAN, e \in EmailValues :
          DirectTransactionContext(d, n, session, e)

CfgEnter ==
    /\ meta_seq < MaxCfgScopes
    /\ \E uri \in UriValues, env_email \in EmailValues, create_ok \in BOOLEAN :
          __enter__(uri, env_email, create_ok)

CfgLoad ==
    /\ clock <= MaxCfgCalls
    /\ \E df \in DfInputs(<<ChainColumn>>, Geographies, ValidValues) :
          load_column_values(<<ChainColumn>>, Geographies, df, "")

CfgExit == __exit__(Unset, TRUE, TRUE)

NextCfg == CfgConstruct \/ CfgEnter \/ CfgLoad \/ BodyRaises \/ CfgExit

SpecCfg == Init /\ [][NextCfg]_vars

-----------------------------------------------------------------------------
(* Specification: a dataset whose index is not covered by geos *)

\* df is indexed by any of the geography ids of the source file, geos holds
\* the geographies that were resolved: some ids of df may have no entry.
KeyLoad ==
    /\ clock <= MaxKeyCalls
    /\ \E geos \in GeosInputs :
          \E df \in DfInputs(<<ChainColumn>>, Geographies, ValidValues) :
              load_column_values(<<ChainColumn>>, geos, df, "")

KeyExit == __exit__(Unset, TRUE, TRUE)

NextKey == ConfiguredEnter \/ KeyLoad \/ BodyRaises \/ KeyExit

SpecKey == Init /\ [][NextKey]_vars

-----------------------------------------------------------------------------
(* Specification: one scope under every spelling of GERRYDB_DRY_RUN *)

\* GERRYDB_DRY_RUN: unset, empty, spellings of true, and other strings.
DryRunValues ==
    {Unset, EnvStr(<<>>), EnvStr(<<"t", "r", "u", "e">>),
     EnvStr(<<"T", "R", "U", "E">>), EnvStr(<<"t", "R", "u", "E">>),
     EnvStr(<<"t", "r", "u", "e", " ">>), EnvStr(<<"t">>), EnvStr(<<"1">>),
     EnvStr(<<"f", "a", "l", "s", "e">>)}

EnvLoad ==
    /\ call = NoCall
    /\ clock = 1
    /\ \E df \in DfInputs(<<ChainColumn>>, Geographies, ValidValues) :
          load_column_values(<<ChainColumn>>, Geographies, df, "")

EnvExit == \E env \in DryRunValues : __exit__(env, TRUE, TRUE)

NextEnv == ConfiguredEnter \/ EnvLoad \/ BodyRaises \/ EnvExit

SpecEnv == Init /\ [][NextEnv]_vars

-----------------------------------------------------------------------------
(* Specification: two processes loading the same column at the same time *)

\* Each process has its own session on the shared database.  The engine
\* is created without an isolation level and no statement takes a lock, so
\* a statement sees the committed rows and the writes of its own
\* transaction, and an update waits for rows another transaction has
\* updated and not yet committed.

\* The ColumnValue rows as the transaction of process p sees them.
ProcView(p) ==
    IF procs[p].pc \in {"insert", "commit"}
        THEN [i \in DOMAIN ColumnValue |->
                 IF i \in procs[p].closed
                     THEN [ColumnValue[i] EXCEPT !.valid_to = procs[p].now]
                     ELSE ColumnValue[i]]
             \o procs[p].inserted
        ELSE ColumnValue

\* The rows another process has updated in a transaction still open.
LockedRows(p) ==
    UNION {procs[q].closed : q \in {r \in Procs \ {p} : procs[r].pc \in {"insert", "commit"}}}

\* Process p enters its scope and calls load_column_values: now is read and
\* rows is built.
ConcCall(p) ==
    /\ procs[p].pc = "idle"
    /\ procs[p].rounds < MaxConcRounds
    /\ \E df \in DfInputs(<<ChainColumn>>, Geographies, ValidValues) :
          procs' = [procs EXCEPT ![p] =
                       [pc |-> "stale", rounds |-> procs[p].rounds + 1,
                        now |-> clock, df |-> df,
                        stale |-> {}, closed |-> {}, inserted |-> <<>>]]
    /\ clock' = clock + 1
    /\ UNCHANGED <<ColumnValue, ObjectMeta, tx_ColumnValue, tx_ObjectMeta, db,
                   dry_run, notes, email, user, meta, meta_seq, pc, enter,
                   call, exit, GeoSetVersion,
                   tx_GeoSetVersion, layer_gdf>>

\* The query for stale values.
ConcStale(p) ==
    /\ procs[p].pc = "stale"
    /\ procs' = [procs EXCEPT ![p].pc = "update",
                               ![p].stale = stale_pairs(ProcView(p), <<ChainColumn>>, Geographies)]
    /\ UNCHANGED <<ColumnValue, ObjectMeta, tx_ColumnValue, tx_ObjectMeta, db,
                   dry_run, notes, email, user, meta, meta_seq, clock, pc,
                   enter, call, exit, GeoSetVersion,
                   tx_GeoSetVersion, layer_gdf>>

\* The update, skipped when no stale value was found; it waits while a row
\* it targets is held by the other transaction.
ConcUpdate(p) ==
    LET targets == IF procs[p].stale = {} THEN {}
                   ELSE {i \in DOMAIN ColumnValue :
                            <<ColumnValue[i].col_id, ColumnValue[i].geo_id>> \in procs[p].stale}
    IN  /\ procs[p].pc = "update"
        /\ targets \cap LockedRows(p) = {}
        /\ procs' = [procs EXCEPT ![p].pc = "insert", ![p].closed = targets]
        /\ UNCHANGED <<ColumnValue, ObjectMeta, tx_ColumnValue, tx_ObjectMeta,
                       db, dry_run, notes, email, user, meta, meta_seq, clock,
                       pc, enter, call, exit, GeoSetVersion,
                   tx_GeoSetVersion, layer_gdf>>

\* The insert of rows.
ConcInsert(p) ==
    /\ procs[p].pc = "insert"
    /\ procs[p].inserted = <<>>
    /\ procs' = [procs EXCEPT ![p].pc = "commit",
                               ![p].inserted =
                                   rows(<<ChainColumn>>, Geographies, procs[p].df,
                                        procs[p].now, p)]
    /\ UNCHANGED <<ColumnValue, ObjectMeta, tx_ColumnValue, tx_ObjectMeta, db,
                   dry_run, notes, email, user, meta, meta_seq, clock, pc,
                   enter, call, exit, GeoSetVersion,
                   tx_GeoSetVersion, layer_gdf>>

\* The scope of process p exits without error and commits.
ConcCommit(p) ==
    /\ procs[p].pc = "commit"
    /\ ColumnValue' = ProcView(p)
    /\ procs' = [procs EXCEPT ![p] = [pc |-> "idle", rounds |-> procs[p].rounds]]
    /\ UNCHANGED <<ObjectMeta, tx_ColumnValue, tx_ObjectMeta, db, dry_run,
                   notes, email, user, meta, meta_seq, clock, pc, enter, call,
                   exit, GeoSetVersion,
                   tx_GeoSetVersion, layer_gdf>>

NextConc ==
    \E p \in Procs :
        ConcCall(p) \/ ConcStale(p) \/ ConcUpdate(p) \/ ConcInsert(p) \/ ConcCommit(p)

SpecConc == Init /\ [][NextConc]_vars

-----------------------------------------------------------------------------
(* Specification: aliases of one column and repeated index entries *)

\* cols_by_alias maps every alias found among df's columns to its column:
\* one alias, or two aliases of the same DataColumn.
DupColsInputs ==
    {<<ChainColumn>>,
     <<ChainColumn, [alias |-> "a2", col_id |-> ChainColumn.col_id,
                     type |-> ChainColumn.type]>>}

\* An index of one or two ids of geos; set_index keeps repeated ids.
DupIndexInputs ==
    {q \in UNION {[1..n -> DOMAIN Geographies] : n \in 1..2} :
        \A i, j \in DOMAIN q : i < j => Geographies[q[i]] <= Geographies[q[j]]}

DupDfInputs(cols) ==
    {[index |-> q, data |-> d] :
        q \in DupIndexInputs,
        d \in [{c.alias : c \in Range(cols)} -> {<<PyVal("int", 5)>>, <<PyVal("int", 5), PyVal("int", 5)>>}]}

\* The store may reject the insert.
DupLoad ==
    /\ clock <= MaxDupCalls
    /\ \E cols \in DupColsInputs, fail \in {"", "insert"} :
          \E df \in {f \in DupDfInputs(cols) :
                        \A a \in DOMAIN f.data : Len(f.data[a]) = Len(f.index)} :
              load_column_values(cols, Geographies, df, fail)

DupExit == __exit__(Unset, TRUE, TRUE)

NextDup == ConfiguredEnter \/ DupLoad \/ BodyRaises \/ DupExit

SpecDup == Init /\ [][NextDup]_vars

-----------------------------------------------------------------------------
(* load_geo, bulk import: the GeoSetVersion rows of the imported layer *)

\* The state whose layer is imported.
Fips == "01"

\* The counties a layer can name in its county column.
Counties == {"001", "003"}

\* LocalityRef.path |-> Locality.loc_id; a path is the state's FIPS code,
\* followed by the county's for a county.
LocalityRef ==
    [path \in {<<Fips>>} \cup {<<Fips, c>> : c \in Counties} |->
        IF path = <<Fips>> THEN 1
        ELSE IF path[2] = "001" THEN 2
        ELSE 3]

\* GeoLayer.path |-> GeoLayer.layer_id
GeoLayers == [level \in {"county", "tract"} |-> IF level = "county" THEN 1 ELSE 2]

\* The rows of a set of localities in the order of their loc_id.
RECURSIVE ByLocId(_)
ByLocId(P) ==
    IF P = {} THEN <<>>
    ELSE LET p == CHOOSE q \in P : \A r \in P : LocalityRef[q] <= LocalityRef[r]
         IN  <<[loc_id |-> LocalityRef[p], path |-> p]>> \o ByLocId(P \ {p})

\* The Result returned by Session.execute: it hands out each row once.
Result(fetched) == [rows |-> fetched, pos |-> 0]

\* The rows an iteration over the result yields: those not handed out yet.
Remaining(result) == SubSeq(result.rows, result.pos + 1, Len(result.rows))

\* The result after an iteration has run to its end.
Exhausted(result) == [result EXCEPT !.pos = Len(result.rows)]

\* Lines 242-280 of load_geo, run inside the scope: select the localities,
\* deprecate the current GeoSetVersion rows, insert the new ones.  counties
\* are the keys of geos_by_county.
load_geo_GeoSets(level, counties) ==
    LET now == clock
        layer_id == GeoLayers[level]
        full_fips == {<<Fips>>} \cup {<<Fips, county_fips>> : county_fips \in counties}
        loc_ids == Result(ByLocId(full_fips \cap DOMAIN LocalityRef))
        \* the dict comprehension iterates loc_ids to its end
        loc_ids_by_fips ==
            [path \in {Remaining(loc_ids)[i].path : i \in DOMAIN Remaining(loc_ids)} |->
                LocalityRef[path]]
        loc_ids_1 == Exhausted(loc_ids)
        \* the generator passed to in_() iterates loc_ids again
        in_list == {Remaining(loc_ids_1)[i].loc_id : i \in DOMAIN Remaining(loc_ids_1)}
        deprecated ==
            [i \in DOMAIN tx_GeoSetVersion |->
                IF /\ tx_GeoSetVersion[i].layer_id = layer_id
                   /\ tx_GeoSetVersion[i].loc_id \in in_list
                   /\ tx_GeoSetVersion[i].valid_to = NULL
                    THEN [tx_GeoSetVersion[i] EXCEPT !.valid_to = now]
                    ELSE tx_GeoSetVersion[i]]
        values == ByLocId(DOMAIN loc_ids_by_fips)
        geo_sets ==
            [k \in DOMAIN values |->
                [layer_id |-> layer_id, loc_id |-> values[k].loc_id,
                 valid_from |-> now, valid_to |-> NULL, meta_id |-> meta]]
    IN  /\ pc = "scope"
        /\ clock' = clock + 1
        /\ tx_GeoSetVersion' = deprecated \o geo_sets
        /\ UNCHANGED <<ColumnValue, ObjectMeta, tx_ColumnValue, tx_ObjectMeta,
                       db, dry_run, notes, email, user, meta, meta_seq, pc,
                       enter, call, exit, procs, GeoSetVersion, layer_gdf>>

-----------------------------------------------------------------------------
(* load_geo, level aiannh: the suffix is stripped and collisions are merged *)

\* categorize_trust_res(x): the class named by the last character of the
\* geoid, or the ValueError raised for any other character.
categorize_trust_res(x) ==
    IF x.suffix # "" /\ LowerChar(x.suffix) = "t" THEN "trust"
    ELSE IF x.suffix # "" /\ LowerChar(x.suffix) = "r" THEN "reservation"
    ELSE "ValueError: Not a trust or reservation"

\* f"{level}:" + x.rstrip("rtRT") + f":fips{fips}" for the state of FIPS
\* code 32: the digits of the geoid without its suffix.
NormalizedGeoid(x) == <<"aiannh", x.digits, "fips32">>

\* The geoids whose two names are known to differ.
ExemptGeoids == {<<"aiannh", "1075", "fips32">>, <<"aiannh", "1070", "fips32">>}

\* layer_gdf after lines 120-121: a class and the normalized geoid per row.
Categorized(source) ==
    [k \in DOMAIN source |->
        [index |-> NormalizedGeoid(source[k].geoid),
         name |-> source[k].name,
         aland |-> source[k].aland,
         geometry |-> source[k].geometry,
         res_trust_class |-> categorize_trust_res(source[k].geoid),
         collision_count |-> 0]]

\* The body of the loop with a row merged unless three have met before.
MergeRow_third_merged(acc, data) ==
    IF acc.raised # "" THEN acc
    ELSE IF data.index \notin DOMAIN acc.new_rows
        THEN [acc EXCEPT !.new_rows = (data.index :> data) @@ acc.new_rows,
                         !.keys = Append(acc.keys, data.index)]
    ELSE LET old == acc.new_rows[data.index]
             merged == [old EXCEPT !.collision_count = @ + 1,
                                   !.aland = @ + data.aland,
                                   !.res_trust_class = "union",
                                   !.geometry = @ \cup data.geometry]
         IN  IF old.collision_count + 1 > 2
                 THEN [acc EXCEPT !.raised = "ValueError: collision of 3 geoids"]
             ELSE IF old.name # data.name /\ data.index \notin ExemptGeoids
                 THEN [acc EXCEPT !.raised = "ValueError: NAME does not match",
                                  !.new_rows[data.index] = merged]
             ELSE [acc EXCEPT !.new_rows[data.index] = merged]

\* One iteration of `for row, data in layer_gdf.iterrows()`: the first row
\* of a geoid is kept; a second one is merged into it; a third one, or a
\* second one under another name, raises.
MergeRow(acc, data) ==
    IF acc.raised # "" THEN acc
    ELSE IF data.index \notin DOMAIN acc.new_rows
        THEN [acc EXCEPT !.new_rows = (data.index :> data) @@ acc.new_rows,
                         !.keys = Append(acc.keys, data.index)]
    ELSE LET old == acc.new_rows[data.index]
             merged == [old EXCEPT !.collision_count = @ + 1,
                                   !.aland = @ + data.aland,
                                   !.res_trust_class = "union",
                                   !.geometry = @ \cup data.geometry]
         IN  IF old.collision_count + 1 > 1
                 THEN [acc EXCEPT !.raised = "ValueError: collision of 3 geoids"]
             ELSE IF old.name # data.name /\ data.index \notin ExemptGeoids
                 THEN [acc EXCEPT !.raised = "ValueError: NAME does not match",
                                  !.new_rows[data.index] = merged]
             ELSE [acc EXCEPT !.new_rows[data.index] = merged]

\* new_rows after the loop has run over the first n rows.
RECURSIVE MergeUpTo(_, _)
MergeUpTo(n, gdf) ==
    IF n = 0 THEN [raised |-> "", new_rows |-> <<>>, keys |-> <<>>]
    ELSE MergeRow(MergeUpTo(n - 1, gdf), gdf[n])

\* Lines 111-166 of load_geo: the rows of layer_gdf when it is indexed by
\* geoid, or the exception raised on the way.
NormalizeAiannh(source) ==
    LET gdf == Categorized(source)
        classes == {gdf[k].res_trust_class : k \in DOMAIN gdf}
        collide == Len(gdf) # Cardinality({gdf[k].index : k \in DOMAIN gdf})
        merged == MergeUpTo(Len(gdf), gdf)
    IN  IF "ValueError: Not a trust or reservation" \in classes
            THEN [raised |-> "ValueError: Not a trust or reservation", rows |-> <<>>]
        ELSE IF ~collide THEN [raised |-> "", rows |-> gdf]
        ELSE IF merged.raised # "" THEN [raised |-> merged.raised, rows |-> <<>>]
        ELSE [raised |-> "",
              rows |-> [k \in DOMAIN merged.keys |-> merged.new_rows[merged.keys[k]]]]

\* load_geo for level aiannh up to set_index: the script ends when an
\* exception is raised.
load_geo_aiannh ==
    /\ layer_gdf.state = "source"
    /\ layer_gdf' =
          LET out == NormalizeAiannh(layer_gdf.rows)
          IN  [state |-> IF out.raised = "" THEN "indexed" ELSE "raised",
               source |-> layer_gdf.rows,
               raised |-> out.raised,
               rows |-> out.rows]
    /\ UNCHANGED <<ColumnValue, ObjectMeta, tx_ColumnValue, tx_ObjectMeta, db,
                   dry_run, notes, email, user, meta, meta_seq, clock, pc,
                   enter, call, exit, procs, GeoSetVersion, tx_GeoSetVersion>>

-----------------------------------------------------------------------------
(* Specification: the aiannh layer of one state, then its import *)

\* What a row of the shapefile says: a geoid of digits and a suffix, and a
\* name.
SourceShapes ==
    [digits : {"1070", "2430"}, suffix : {"R", "T", ""}, name : {"A", "B"}]

\* The k-th row of the shapefile: its land area and its geometry (a set of
\* cells) are its own.
SourceRow(k, shape) ==
    [geoid |-> [digits |-> shape.digits, suffix |-> shape.suffix],
     name |-> shape.name, aland |-> k, geometry |-> {k}]

\* The layers of n rows.
LayerInputs(n) ==
    {[k \in 1..n |-> SourceRow(k, q[k])] : q \in [1..n -> SourceShapes]}

InitAiannh ==
    /\ ColumnValue = <<>>
    /\ ObjectMeta = {}
    /\ tx_ColumnValue = <<>>
    /\ tx_ObjectMeta = {}
    /\ db = "None"
    /\ dry_run = FALSE
    /\ notes \in Notes
    /\ email = None
    /\ user = 0
    /\ enter = NoEnter
    /\ procs = NoProcs
    /\ GeoSetVersion = <<>>
    /\ tx_GeoSetVersion = <<>>
    /\ \E n \in 1..MaxLayerRows : \E q \in LayerInputs(n) :
          layer_gdf = [state |-> "source", rows |-> q]
    /\ meta = 0
    /\ meta_seq = 0
    /\ clock = 1
    /\ pc = "new"
    /\ call = NoCall
    /\ exit = NoExit

\* The bulk import opens its scope once the layer is indexed.
AiannhEnter ==
    /\ layer_gdf.state = "indexed"
    /\ pc = "new"
    /\ ConfiguredEnter

\* The GeoSetVersion rows of the import.
AiannhGeoSets ==
    /\ tx_GeoSetVersion = GeoSetVersion
    /\ clock = 1
    /\ load_geo_GeoSets("county", {})

AiannhExit == __exit__(Unset, TRUE, TRUE)

NextAiannh == load_geo_aiannh \/ AiannhEnter \/ AiannhGeoSets \/ AiannhExit

SpecAiannh == InitAiannh /\ [][NextAiannh]_vars

-----------------------------------------------------------------------------
(* Specification: repeated bulk imports of layers of one state *)

\* Each run of load_geo opens one scope and updates the GeoSets once in it.
GeoSets ==
    /\ clock <= MaxGeoImports
    /\ tx_GeoSetVersion = GeoSetVersion
    /\ \E level \in DOMAIN GeoLayers, counties \in SUBSET Counties :
          load_geo_GeoSets(level, counties)

GeoExit == __exit__(Unset, TRUE, TRUE)

NextGeo == ConfiguredEnter \/ GeoSets \/ BodyRaises \/ GeoExit

SpecGeo == Init /\ [][NextGeo]_vars

-----------------------------------------------------------------------------
(* Specification: scopes ended by either variant of __exit__ *)

VariantConstruct ==
    /\ meta_seq < MaxVariantScopes
    /\ \E d \in BOOLEAN, n \in Notes : DirectTransactionContext(d, n, FALSE, None)

VariantLoad ==
    /\ call = NoCall
    /\ clock = 1
    /\ \E df \in DfInputs(<<ChainColumn>>, Geographies, ValidValues) :
          load_column_values(<<ChainColumn>>, Geographies, df, "")

VariantExit ==
    \E env \in EnvValues :
        __exit__(env, TRUE, TRUE) \/ cherrydb__exit__(env, TRUE, TRUE)

VariantEnter ==
    /\ meta_seq < MaxVariantScopes
    /\ ConfiguredEnter

NextVariant ==
    VariantConstruct \/ VariantEnter \/ VariantLoad \/ BodyRaises \/ VariantExit

SpecVariant == Init /\ [][NextVariant]_vars

-----------------------------------------------------------------------------
(* Properties *)

\* The rows of one (column, geography) pair, by position in the table.
PairRows(table, col_id, geo_id) ==
    {i \in DOMAIN table : table[i].col_id = col_id /\ table[i].geo_id = geo_id}

CurrentRows(table, col_id, geo_id) ==
    {i \in PairRows(table, col_id, geo_id) : table[i].valid_to = NULL}

PairsOf(table) == {<<table[i].col_id, table[i].geo_id>> : i \in DOMAIN table}

\* The last call of the scope returned normally and nothing ran after it.
CallReturned == call.now # 0 /\ call.raised = "" /\ pc = "scope"

\* The scope has ended with a successful commit.
Committed == pc = "exited" /\ exit.calls = <<"commit", "close">>

\* C1: after any sequence of committed load_column_values calls with
\* pairwise-distinct columns and an index without repeated ids, every
\* (column, geography) pair has at most one committed row with valid_to = null.
C1_AtMostOneCurrent ==
    \A pair \in PairsOf(ColumnValue) :
        Cardinality(CurrentRows(ColumnValue, pair[1], pair[2])) <= 1

\* Two committed calls wrote the same pair: one closed row and one current row.
C1_Witness ==
    /\ Committed
    /\ \E pair \in PairsOf(ColumnValue) :
          /\ Cardinality(PairRows(ColumnValue, pair[1], pair[2])) = 2
          /\ Cardinality(CurrentRows(ColumnValue, pair[1], pair[2])) = 1

\* The (column, geography) pairs a call inserts a row for.
WrittenPairs(c) ==
    {<<col.col_id, c.geos[p]>> : col \in Range(c.cols), p \in Range(c.df.index)}

\* C2: every (column, geography) pair that had a current row before a call
\* has exactly one current row when the call returns, also when df's index
\* is a strict subset of the keys of geos.
C2_CurrentStaysCurrent ==
    CallReturned =>
        \A pair \in PairsOf(call.before) :
            CurrentRows(call.before, pair[1], pair[2]) # {} =>
                Cardinality(CurrentRows(tx_ColumnValue, pair[1], pair[2])) = 1

\* C3: a call deletes no row and changes no existing row except to set
\* valid_to = now on rows that were current when the call started; a row
\* closed earlier keeps its valid_to, valid_from and payload.
C3_OnlyCurrentRowsClosed ==
    CallReturned =>
        /\ Len(tx_ColumnValue) >= Len(call.before)
        /\ \A i \in DOMAIN call.before :
              IF call.before[i].valid_to = NULL
                  THEN tx_ColumnValue[i] \in
                        {call.before[i], [call.before[i] EXCEPT !.valid_to = call.now]}
                  ELSE tx_ColumnValue[i] = call.before[i]

\* C6: a call sets valid_to only on rows of pairs that had a current row
\* and that the call writes.
C6_ClosesOnlyWrittenPairs ==
    CallReturned =>
        \A i \in DOMAIN call.before :
            tx_ColumnValue[i].valid_to # call.before[i].valid_to =>
                /\ CurrentRows(call.before, call.before[i].col_id,
                               call.before[i].geo_id) # {}
                /\ <<call.before[i].col_id, call.before[i].geo_id>>
                        \in WrittenPairs(call)

\* The last call repeated, with the same cols, geos and df, a call made on
\* an empty table, and the scope committed.
AppliedTwice ==
    /\ Committed
    /\ call.now # 0
    /\ call.raised = ""
    /\ \E t \in 1..(call.now - 1), m \in 1..meta_seq :
          call.before = rows(call.cols, call.geos, call.df, t, m)

\* C7: applying the same cols, geos and df twice in succession, both
\* committed, leaves exactly two rows for each written pair: the first closed
\* with valid_to equal to the valid_from of the second, the second current.
C7_TwiceLeavesTwoVersions ==
    AppliedTwice =>
        \A pair \in WrittenPairs(call) :
            LET R == PairRows(ColumnValue, pair[1], pair[2])
            IN  /\ Cardinality(R) = 2
                /\ \E i, j \in R :
                      /\ i < j
                      /\ ColumnValue[i].valid_to # NULL
                      /\ ColumnValue[i].valid_to = ColumnValue[j].valid_from
                      /\ ColumnValue[j].valid_to = NULL

\* The same two-column, two-geography batch was applied twice.
C7_Witness ==
    /\ AppliedTwice
    /\ Cardinality(WrittenPairs(call)) = 4

\* The cells of a call's batch that fail the type check of their column.
OffendingCells(c) ==
    {<<k, i>> \in (DOMAIN c.cols) \X (1..Len(c.df.index)) :
        CellError(c.cols[k].type, c.df.data[c.cols[k].alias][i]) # ""}

\* C4: if any cell of any column of cols fails type validation, the call
\* raises and writes nothing, whichever column holds the failing cell.
C4_InvalidBatchWritesNothing ==
    (call.now # 0 /\ pc \in {"scope", "raising"} /\ OffendingCells(call) # {}) =>
        /\ call.raised # ""
        /\ tx_ColumnValue = call.before

\* C5: when validation fails, the error raised carries one entry for every
\* offending cell of every column and geography of the batch.
C5_ErrorCarriesEveryOffendingCell ==
    (call.now # 0 /\ call.raised = "TypeError") =>
        Len(call.entries) = Cardinality(OffendingCells(call))

\* GERRYDB_DRY_RUN is 'true'.
EnvIsTrue(env) == env.set /\ env.val = <<"t", "r", "u", "e">>

\* C8: on exit of a scope the session is rolled back and commit is never
\* called if the scope exited with an exception, or dry_run is set, or
\* GERRYDB_DRY_RUN is 'true'; commit is attempted only when none of them holds.
C8_RollbackTriggers ==
    pc = "exited" =>
        LET trigger == exit.exc_type \/ exit.dry_run \/ EnvIsTrue(exit.env)
        IN  /\ trigger =>
                /\ exit.calls[1] = "rollback"
                /\ "commit" \notin Range(exit.calls)
            /\ "commit" \in Range(exit.calls) => ~trigger

\* A scope rolled back on account of GERRYDB_DRY_RUN alone.
C8_Witness ==
    /\ pc = "exited"
    /\ ~exit.exc_type
    /\ ~exit.dry_run
    /\ EnvIsTrue(exit.env)
    /\ exit.calls = <<"rollback", "close">>

\* C9: a scope entered with the dry-run flag set that performs
\* load_column_values and exits normally persists nothing: the committed
\* ColumnValue rows (none added, none closed) and the committed ObjectMeta
\* rows are those from before, and the scope's audit record is not among them.
C9_DryRunPersistsNothing ==
    [][(/\ pc = "scope"
        /\ dry_run
        /\ call.now # 0
        /\ call.raised = ""
        /\ pc' = "exited")
       => /\ ColumnValue' = ColumnValue
          /\ ObjectMeta' = ObjectMeta
          /\ \A m \in ObjectMeta' : m.meta_id # meta]_vars

\* A dry-run scope rewrote a pair that has a committed current row, and
\* exited normally.
C9_Witness ==
    /\ pc = "exited"
    /\ exit.dry_run
    /\ ~exit.exc_type
    /\ exit.calls = <<"rollback", "close">>
    /\ call.now # 0
    /\ call.raised = ""
    /\ \E i \in DOMAIN ColumnValue :
          /\ ColumnValue[i].valid_to = NULL
          /\ <<ColumnValue[i].col_id, ColumnValue[i].geo_id>> \in WrittenPairs(call)

\* C10: every scope that was entered has closed its session when __exit__
\* is over, on every exit path.
C10_SessionClosedOnExit ==
    pc = "exited" => "close" \in Range(exit.calls)

\* The step of __exit__ in which commit is called and fails.
CommitFailsStep ==
    /\ pc = "scope"
    /\ pc' = "exited"
    /\ exit'.calls[1] = "commit"
    /\ exit'.raises

\* Nothing the scope wrote is among the committed rows.
NothingPersists ==
    /\ ColumnValue' = ColumnValue
    /\ ObjectMeta' = ObjectMeta

\* C11 as stated: if commit fails when a scope exits, the session is rolled
\* back, the commit's exception propagates and nothing written in the scope
\* persists.
C11_CommitFailurePropagates ==
    [][CommitFailsStep =>
        /\ exit'.calls = <<"commit", "rollback">>
        /\ exit'.error = "commit"
        /\ db' # "broken"
        /\ NothingPersists]_vars

\* C11 amended: if commit fails, rollback is called and nothing written in
\* the scope persists; the commit's exception propagates when that rollback
\* succeeds, the rollback's own exception when it does not.
C11_CommitFailureRollsBack ==
    [][CommitFailsStep =>
        /\ exit'.calls = <<"commit", "rollback">>
        /\ exit'.error = (IF db' = "broken" THEN "rollback" ELSE "commit")
        /\ NothingPersists]_vars

\* A scope that loaded rows found its commit failing and rolled back.
C11_Witness ==
    /\ pc = "exited"
    /\ exit.calls = <<"commit", "rollback">>
    /\ exit.error = "commit"
    /\ call.now # 0
    /\ call.raised = ""
    /\ Len(ColumnValue) < Len(call.before) + Cardinality(WrittenPairs(call))

\* C12: if the bulk update or the bulk insert inside load_column_values
\* fails, the exception leaves load_column_values with the nested
\* transaction undone, and the exit of the scope it leaves rolls back
\* everything written in the scope: the failing call's partial close-outs,
\* the audit record and the effects of earlier calls of the scope.
C12_StoreFailureRollsBackScope ==
    [][/\ (call'.now # call.now /\ call'.now # 0 /\ call'.raised = "DBAPIError") =>
            /\ pc' = "raising"
            /\ tx_ColumnValue' = call'.before
       /\ (pc = "raising" /\ call.now # 0 /\ call.raised = "DBAPIError"
                /\ pc' = "exited") =>
            /\ exit'.calls[1] = "rollback"
            /\ "commit" \notin Range(exit'.calls)
            /\ NothingPersists
            /\ tx_ColumnValue' = ColumnValue
            /\ tx_ObjectMeta' = ObjectMeta]_vars

\* After a successful load in the same scope, the insert of a second load
\* failed once its close-out was executed, and the scope was rolled back.
C12_Witness ==
    /\ pc = "exited"
    /\ exit.exc_type
    /\ exit.calls = <<"rollback", "close">>
    /\ call.now # 0
    /\ call.raised = "DBAPIError"
    /\ call.partial # call.before
    /\ Len(call.before) > Len(ColumnValue)

\* The audit records created in the scope that is open.
ScopeAudit(metas) == metas \ ObjectMeta

\* C13: each entry into a DirectTransactionContext scope creates exactly one
\* ObjectMeta record carrying the caller's notes, and every ColumnValue row
\* inserted during the scope has meta_id equal to that record's id, also
\* when the same context object is entered a second time.
C13_EachEntryCreatesAudit ==
    [][/\ (pc # "scope" /\ pc' = "scope") =>
            /\ Cardinality(ScopeAudit(tx_ObjectMeta')) = 1
            /\ \A m \in ScopeAudit(tx_ObjectMeta') :
                    m.notes = notes' /\ m.meta_id = meta'
       /\ (pc = "scope" /\ pc' = "scope") =>
            \A i \in (Len(tx_ColumnValue) + 1)..Len(tx_ColumnValue') :
                \E m \in ScopeAudit(tx_ObjectMeta) :
                    tx_ColumnValue'[i].meta_id = m.meta_id]_vars

\* The rows of the table a returned call found and closed.
ClosedByCall ==
    {i \in DOMAIN call.before : tx_ColumnValue[i].valid_to # call.before[i].valid_to}

\* The rows a returned call appended.
InsertedByCall == (Len(call.before) + 1)..Len(tx_ColumnValue)

\* C14: within one load_column_values call a single timestamp is used: every
\* row closed by the call gets the same valid_to, and that value equals the
\* valid_from of every row inserted by the call.
C14_SingleTimestamp ==
    CallReturned =>
        /\ \A i, j \in ClosedByCall :
                tx_ColumnValue[i].valid_to = tx_ColumnValue[j].valid_to
        /\ \A i \in ClosedByCall, j \in InsertedByCall :
                tx_ColumnValue[i].valid_to = tx_ColumnValue[j].valid_from
        /\ \A i, j \in InsertedByCall :
                tx_ColumnValue[i].valid_from = tx_ColumnValue[j].valid_from

\* A call that closed at least two rows and inserted at least two.
C14_Witness ==
    /\ CallReturned
    /\ Cardinality(ClosedByCall) >= 2
    /\ Cardinality(InsertedByCall) >= 2

\* The payload field of a column type.
PayloadField(type) ==
    IF type = "INT" THEN "val_int"
    ELSE IF type = "FLOAT" THEN "val_float"
    ELSE IF type = "STR" THEN "val_str"
    ELSE "val_bool"

\* The value a valid cell is stored as: an integer in a FLOAT column becomes
\* the floating-point number of the same magnitude.
Coerced(type, value) ==
    IF type = "FLOAT" /\ value.t = "int" THEN [t |-> "float", v |-> value.v]
    ELSE value

\* The inserted rows that carry cell (cols[k], index[i]) of the call.
RowsOfCell(k, i) ==
    {j \in InsertedByCall :
        /\ tx_ColumnValue[j].col_id = call.cols[k].col_id
        /\ tx_ColumnValue[j].geo_id = call.geos[call.df.index[i]]
        /\ tx_ColumnValue[j].valid_from = call.now
        /\ tx_ColumnValue[j].valid_to = NULL
        /\ tx_ColumnValue[j].val_column = PayloadField(call.cols[k].type)
        /\ tx_ColumnValue[j].value =
              Coerced(call.cols[k].type, call.df.data[call.cols[k].alias][i])}

\* C15: a successful call inserts exactly one new row for each cell (column
\* of cols, geography id of df's index), with that column's col_id, that
\* geography's geo_id, valid_from = now, valid_to = null and the coerced
\* value in the payload field of the column's type; it inserts no other row
\* and omits no cell of any column.
C15_OneRowPerCell ==
    CallReturned =>
        /\ \A k \in DOMAIN call.cols, i \in DOMAIN call.df.index :
                Cardinality(RowsOfCell(k, i)) = 1
        /\ \A j \in InsertedByCall :
                \E k \in DOMAIN call.cols, i \in DOMAIN call.df.index :
                    j \in RowsOfCell(k, i)
        /\ Cardinality(InsertedByCall) = Len(call.cols) * Len(call.df.index)

\* A call of two columns over two geographies returned.
C15_Witness ==
    /\ CallReturned
    /\ Len(call.cols) = 2
    /\ Len(call.df.index) = 2
    /\ Cardinality(InsertedByCall) = 4
    /\ call.before # <<>>

\* C16: when no (column, geography) pair written by a call has an existing
\* row, the call touches no existing row and performs exactly one insertion
\* per cell.
C16_NoHistoryNoUpdate ==
    (/\ CallReturned
     /\ \A pair \in WrittenPairs(call) :
            PairRows(call.before, pair[1], pair[2]) = {}) =>
        /\ ClosedByCall = {}
        /\ Cardinality(InsertedByCall) = Len(call.cols) * Len(call.df.index)

\* The cells of the call's only column, by position in df's index.
CellsOfCall == call.df.data[call.cols[1].alias]

\* C17: for a FLOAT column, an integer cell passes validation without error
\* and its row is stored with the floating-point value equal to it; a
\* floating-point cell is stored unchanged.
C17_FloatPromotion ==
    (/\ call.now # 0
     /\ call.cols[1].type = "FLOAT"
     /\ \A i \in DOMAIN CellsOfCall : CellsOfCall[i].t \in {"int", "float"}) =>
        /\ call.raised = ""
        /\ CallReturned =>
              \A i \in DOMAIN CellsOfCall :
                  \E j \in InsertedByCall :
                      /\ tx_ColumnValue[j].geo_id = call.geos[call.df.index[i]]
                      /\ tx_ColumnValue[j].val_column = "val_float"
                      /\ tx_ColumnValue[j].value = [t |-> "float", v |-> CellsOfCall[i].v]

\* A FLOAT column loaded with an integer cell and a floating-point cell.
C17_Witness ==
    /\ CallReturned
    /\ call.cols[1].type = "FLOAT"
    /\ \E i, j \in DOMAIN CellsOfCall :
          CellsOfCall[i].t = "int" /\ CellsOfCall[j].t = "float"

\* The cells of the call that are Python booleans.
BoolCells == {i \in DOMAIN CellsOfCall : CellsOfCall[i].t = "bool"}

DeclaredClass(val_column) ==
    IF val_column = "val_int" THEN "int"
    ELSE IF val_column = "val_float" THEN "float"
    ELSE IF val_column = "val_str" THEN "str"
    ELSE "bool"

\* C18: no ColumnValue row is ever persisted whose payload type differs from
\* the declared type of its column, for any batch of cells and any order of
\* columns in cols.
C18_PayloadMatchesColumnType ==
    \A i \in DOMAIN ColumnValue :
        ColumnValue[i].value.t = DeclaredClass(ColumnValue[i].val_column)

\* The connection string or the email was missing from both the constructor
\* arguments and the environment when __enter__ was last called.
ConfigMissing ==
    \/ enter.db = "None" /\ ~enter.uri.set
    \/ enter.email = None /\ ~enter.env_email.set

\* C20: if the connection string or the email is missing from both the
\* constructor arguments and the environment, entering the scope fails
\* before any database interaction: no transaction is begun, no user query
\* is issued and no audit record is created.
C20_MissingConfigFailsEarly ==
    (enter # NoEnter /\ ConfigMissing) =>
        /\ enter.raised # ""
        /\ enter.calls = <<>>

\* The index of the call's df holds a geography id that is no key of geos.
MissingGeo == \E i \in DOMAIN call.df.index : call.df.index[i] \notin DOMAIN call.geos

\* C21: if df's index holds a geography id that has no entry in geos, the
\* call raises instead of skipping that row, and no ColumnValue row is
\* inserted or closed by the call.
C21_MissingGeoRaises ==
    (call.now # 0 /\ MissingGeo) =>
        /\ call.raised = "KeyError"
        /\ pc \in {"raising", "exited"}
        /\ pc = "raising" => tx_ColumnValue = call.before
        /\ pc = "exited" => "commit" \notin Range(exit.calls)

\* The call met a missing geography after an earlier call of the scope had
\* written current rows for the column, one of them for a geography of geos.
C21_Witness ==
    /\ pc = "raising"
    /\ call.now # 0
    /\ MissingGeo
    /\ call.raised = "KeyError"
    /\ stale_pairs(call.before, call.cols, call.geos) # {}
    /\ Len(call.df.index) = 2

\* The value of the variable is the word true in any mix of cases.
TrueIgnoringCase(env) ==
    /\ env.set
    /\ Len(env.val) = 4
    /\ env.val[1] \in {"t", "T"}
    /\ env.val[2] \in {"r", "R"}
    /\ env.val[3] \in {"u", "U"}
    /\ env.val[4] \in {"e", "E"}

\* C22: GERRYDB_DRY_RUN forces rollback exactly when its value equals
\* 'true' ignoring case; when it is unset, empty or any other string the
\* outcome is decided by dry_run and the error state alone, and no value of
\* it turns a scope with dry_run = True into a commit.
C22_DryRunOverride ==
    (pc = "exited" /\ exit # NoExit) =>
        /\ TrueIgnoringCase(exit.env) => exit.calls = <<"rollback", "close">>
        /\ ~TrueIgnoringCase(exit.env) =>
              IF exit.exc_type \/ exit.dry_run
                  THEN exit.calls = <<"rollback", "close">>
                  ELSE exit.calls = <<"commit", "close">>
        /\ exit.dry_run => "commit" \notin Range(exit.calls)

\* A scope without error and without dry_run that loaded rows was rolled
\* back by a value spelled in capitals.
C22_Witness ==
    /\ pc = "exited"
    /\ exit # NoExit
    /\ exit.env = EnvStr(<<"T", "R", "U", "E">>)
    /\ ~exit.exc_type
    /\ ~exit.dry_run
    /\ call.now # 0
    /\ exit.calls = <<"rollback", "close">>
    /\ ColumnValue = <<>>

\* C23: when two processes each run load_column_values on the same
\* (column, geography) pair inside their own scopes with arbitrarily
\* interleaved steps and both scopes commit, at most one row of the pair
\* has valid_to = null afterwards.
C23_ConcurrentAtMostOneCurrent ==
    (\A p \in Procs : procs[p].pc = "idle" /\ procs[p].rounds > 0) =>
        \A pair \in PairsOf(ColumnValue) :
            Cardinality(CurrentRows(ColumnValue, pair[1], pair[2])) <= 1

\* The positions of a statement in the steps of the last call.
StepsAt(name) == {k \in DOMAIN call.steps : call.steps[k] = name}

\* The validation loops come first and every write comes after them, the
\* close-out precedes the insert, and both sit between the opening and the
\* end of the nested sub-transaction.
WritesInOrder ==
    /\ call.steps[1] = "validate"
    /\ \A u \in StepsAt("update"), i \in StepsAt("insert") : u < i
    /\ \A w \in StepsAt("update") \cup StepsAt("insert") :
          /\ \E b \in StepsAt("savepoint") : b < w
          /\ \E e \in StepsAt("release") \cup StepsAt("rollback_to") : w < e
    /\ \A q \in StepsAt("select"), w \in StepsAt("update") \cup StepsAt("insert") :
          q < w

\* C24: the steps of load_column_values run in the order validate every
\* cell, look up stale rows, close stale rows, insert new rows; no write is
\* issued before validation has finished, the close-out precedes the insert,
\* and the stale lookup, the update and the insert all execute inside the
\* same nested sub-transaction.
C24_AllInsideNestedTransaction ==
    call.now # 0 =>
        /\ WritesInOrder
        /\ \A q \in StepsAt("select") :
              \E b \in StepsAt("savepoint") : b < q

\* C24, as the code has it: the stale lookup, one query per column, runs
\* after validation and before the nested sub-transaction is opened; the
\* update and the insert execute inside it, in this order.
C24_LookupBeforeNestedTransaction ==
    call.now # 0 =>
        /\ WritesInOrder
        /\ call.raised = "" => Cardinality(StepsAt("select")) = Len(call.cols)
        /\ Cardinality(StepsAt("savepoint")) <= 1
        /\ \A q \in StepsAt("select"), b \in StepsAt("savepoint") : q < b

\* A call of two columns that found stale rows, closed them and inserted.
C24_Witness ==
    /\ CallReturned
    /\ Len(call.cols) = 2
    /\ call.steps = <<"validate", "select", "select", "savepoint", "update",
                       "insert", "release">>

\* The row written for the pair of row i next after it, if any.
NextRowOfPair(table, i) ==
    {j \in PairRows(table, table[i].col_id, table[i].geo_id) :
        /\ i < j
        /\ \A k \in PairRows(table, table[i].col_id, table[i].geo_id) :
              i < k => j <= k}

\* C25: after any sequence of committed calls on the same pair (three or
\* more included), the validity intervals [valid_from, valid_to) of the
\* pair's rows are pairwise disjoint and every closed row's valid_to equals
\* the valid_from of the next row written for the pair.
C25_IntervalsDisjoint ==
    \A i \in DOMAIN ColumnValue :
        /\ \A j \in NextRowOfPair(ColumnValue, i) :
              ColumnValue[i].valid_to = ColumnValue[j].valid_from
        /\ \A j \in PairRows(ColumnValue, ColumnValue[i].col_id, ColumnValue[i].geo_id) :
              i < j =>
                  /\ ColumnValue[i].valid_to # NULL
                  /\ ColumnValue[i].valid_to <= ColumnValue[j].valid_from

\* C26: a single call never inserts two rows for the same (column,
\* geography) pair, even when two aliases in cols resolve to the same column
\* or df's index repeats a geography id.
C26_NoDuplicatePairInCall ==
    CallReturned =>
        \A i, j \in InsertedByCall :
            (/\ tx_ColumnValue[i].col_id = tx_ColumnValue[j].col_id
             /\ tx_ColumnValue[i].geo_id = tx_ColumnValue[j].geo_id) => i = j

\* The current GeoSetVersion rows of a layer and a locality.
CurrentGeoSets(table, layer_id, loc_id) ==
    {i \in DOMAIN table :
        /\ table[i].layer_id = layer_id
        /\ table[i].loc_id = loc_id
        /\ table[i].valid_to = NULL}

\* C27: in load_geo's bulk import every GeoSetVersion that is current for
\* the imported layer and an affected locality is closed before the new
\* rows are inserted, so that after any number of imports each (layer,
\* locality) imported has exactly one current GeoSetVersion.
C27_OneCurrentGeoSetVersion ==
    \A i \in DOMAIN GeoSetVersion :
        Cardinality(CurrentGeoSets(GeoSetVersion, GeoSetVersion[i].layer_id,
                                   GeoSetVersion[i].loc_id)) = 1

\* A scope is ended by cherrydb_etl's __exit__.
CherrydbExitStep ==
    /\ pc \in {"scope", "raising"}
    /\ pc' = "exited"
    /\ "variant" \in DOMAIN exit'

\* On this step cherrydb_etl's __exit__ decides otherwise than gerrydb_etl's
\* does for the same error state, dry-run flag and environment value.
VariantsDiffer ==
    (exit'.calls[1] = "rollback") # RollbackWanted(pc = "raising", dry_run, exit'.env)

\* C28: the only difference in the commit/rollback decision between the
\* cherrydb_etl and gerrydb_etl variants of __exit__ is for a scope that has
\* the dry-run flag set and exits without an error; on every other
\* combination of (error occurred, dry-run set) the two decide the same.
C28_DifferOnDryRunWithoutError ==
    [][CherrydbExitStep => (VariantsDiffer <=> (dry_run /\ pc = "scope"))]_vars

\* C28, as the code has it: the variants differ exactly for a scope that
\* exits with an error while neither the dry-run flag nor the dry-run
\* environment variable asks for a rollback: cherrydb_etl commits it,
\* gerrydb_etl rolls it back.
C28_DifferOnErrorWithoutDryRun ==
    [][CherrydbExitStep =>
        /\ VariantsDiffer <=>
              (pc = "raising" /\ ~dry_run /\ ~TrueIgnoringCase(exit'.env))
        /\ VariantsDiffer => exit'.calls = <<"commit", "close">>]_vars

\* cherrydb_etl's __exit__ committed the rows loaded by a scope that exits
\* with an error.
C28_Witness ==
    /\ pc = "exited"
    /\ "variant" \in DOMAIN exit
    /\ exit.exc_type
    /\ ~exit.dry_run
    /\ exit.calls = <<"commit", "close">>
    /\ ColumnValue # <<>>

\* C29: a boolean cell value is never stored in an INT or FLOAT column: the
\* call records a type error for a boolean cell of an INT column and of a
\* FLOAT column.
C29_BoolRejectedByNumericColumns ==
    (/\ call.now # 0
     /\ call.cols[1].type \in {"INT", "FLOAT"}
     /\ BoolCells # {}) =>
        /\ call.raised = "TypeError"
        /\ pc # "scope"

\* The source rows of the layer whose geoid normalizes to key.
SourceOf(key) ==
    {k \in DOMAIN layer_gdf.source : NormalizedGeoid(layer_gdf.source[k].geoid) = key}

SourceKeys ==
    {NormalizedGeoid(layer_gdf.source[k].geoid) : k \in DOMAIN layer_gdf.source}

\* Every source row ends in the suffix of a reservation or of trust land.
AllSuffixed == \A k \in DOMAIN layer_gdf.source : layer_gdf.source[k].geoid.suffix # ""

\* The rows of the index under key.
IndexedAs(key) == {k \in DOMAIN layer_gdf.rows : layer_gdf.rows[k].index = key}

\* The index holds every source geoid once; a geoid of two source rows has
\* a row classed union whose geometry is the union of both.
IndexedOnceAndMerged ==
    /\ layer_gdf.state = "indexed"
    /\ \A key \in SourceKeys : Cardinality(IndexedAs(key)) = 1
    /\ \A key \in SourceKeys :
          Cardinality(SourceOf(key)) = 2 =>
              \A k \in IndexedAs(key) :
                  /\ layer_gdf.rows[k].res_trust_class = "union"
                  /\ layer_gdf.rows[k].geometry =
                        UNION {layer_gdf.source[j].geometry : j \in SourceOf(key)}

\* The script ended with a ValueError and wrote nothing to the database.
RaisedBeforeWrite ==
    /\ layer_gdf.state = "raised"
    /\ db = "None"
    /\ ObjectMeta = {} /\ tx_ObjectMeta = {}
    /\ GeoSetVersion = <<>> /\ tx_GeoSetVersion = <<>>

\* Two source rows of one geoid carry different names and the geoid is not
\* exempt from the comparison.
NameMismatch ==
    \E key \in SourceKeys \ ExemptGeoids :
        \E j, k \in SourceOf(key) :
            layer_gdf.source[j].name # layer_gdf.source[k].name

\* C30: after the suffix is stripped and colliding rows are merged, the
\* index holds each normalized geoid exactly once: two source rows sharing a
\* normalized geoid yield one row classed union whose geometry is the union
\* of both, and a third source row with the same normalized geoid raises
\* ValueError before any database write.
C30_CollisionsMergedOrRaise ==
    (layer_gdf.state \in {"indexed", "raised"} /\ AllSuffixed) =>
        IF \E key \in SourceKeys : Cardinality(SourceOf(key)) >= 3
            THEN RaisedBeforeWrite
            ELSE IndexedOnceAndMerged

\* C30, as the code has it: two source rows sharing a normalized geoid are
\* merged only if their names agree or the geoid is one of the two exempt
\* ones; under different names they raise ValueError before any database
\* write, as a third row of the geoid does.
C30_CollisionsMergedUnlessNamesDiffer ==
    (layer_gdf.state \in {"indexed", "raised"} /\ AllSuffixed) =>
        IF \/ \E key \in SourceKeys : Cardinality(SourceOf(key)) >= 3
           \/ NameMismatch
            THEN RaisedBeforeWrite
            ELSE IndexedOnceAndMerged

\* A reservation and its trust land were merged under one geoid next to
\* another geography, and the import has committed.
C30_Witness ==
    /\ layer_gdf.state = "indexed"
    /\ Len(layer_gdf.source) = 3
    /\ Len(layer_gdf.rows) = 2
    /\ \E k \in DOMAIN layer_gdf.rows :
          /\ layer_gdf.rows[k].res_trust_class = "union"
          /\ Cardinality(layer_gdf.rows[k].geometry) = 2
    /\ Committed

====
